---------------------------- MODULE Spec2Model ----------------------------
(***************************************************************************)
(* Weapons target assignment problem (WTAP): a model of wtap() in          *)
(* examples/weapons_target_assignment_problem.py.                          *)
(*                                                                         *)
(* One state of the model is the state of one call of wtap() at the head   *)
(* of its while loop (line 72).  Numbers are exact rationals, as in the    *)
(* test that runs wtap() on fractions.Fraction values: a rational is a     *)
(* pair <<numerator, denominator>> in lowest terms, denominator > 0.       *)
(*                                                                         *)
(* The tests around wtap() that later properties need are modelled too:    *)
(* the permutation loop of test03 and the damage assessment of an          *)
(* assignment.                                                             *)
(***************************************************************************)
EXTENDS Integers, Sequences, FiniteSets, TLC

VARIABLES
    probabilities,             \* input: weapon -> (target -> probability)
    weapons,                   \* input: list of devices
    target_values,             \* input: target -> value
    unassigned_devices,        \* the work queue (line 66)
    assignments,               \* Graph: weapon -> ordered dict target -> damage_effect
    cumulative_survival_prob,  \* target -> probability of survival (line 68)
    improvements,              \* weapon -> last recorded improvement (line 70)
    pc,                        \* "loop" | "done" | "raised"
    exception,                 \* the exception that ended the call, "" if none
    iterations,                \* number of loop bodies executed so far
    last,                      \* the locals of the last loop body executed
    c,                         \* test03: permutations tried so far (line 164)
    expected_result,           \* test03: the last damage that differed (line 165)
    variations,                \* test03: dict s -> frequency (line 166)
    total_survival_value       \* the last damage assessment returned (line 284)

vars == <<probabilities, weapons, target_values, unassigned_devices, assignments,
          cumulative_survival_prob, improvements, pc, exception, iterations, last,
          c, expected_result, variations, total_survival_value>>

inputs == <<probabilities, weapons, target_values>>

\* The state of the tests around wtap(), which wtap() itself never touches.
test == <<c, expected_result, variations, total_survival_value>>

-----------------------------------------------------------------------------
(* Bounds of the model. *)

MaxWeapons == 2

MaxIter == 16

\* The number of permutations test03 is followed through.
MaxPermutations == 8

-----------------------------------------------------------------------------
(* Exact rational arithmetic (fractions.Fraction). *)

Abs(x) == IF x < 0 THEN -x ELSE x

RECURSIVE GCD(_, _)
GCD(a, b) == IF b = 0 THEN a ELSE GCD(b, a % b)

Frac(n, d) ==
    LET s == IF d < 0 THEN -1 ELSE 1
        g == GCD(Abs(n), Abs(d))
    IN  <<(s * n) \div g, (s * d) \div g>>

Zero == Frac(0, 1)

One == Frac(1, 1)

RMul(a, b) == Frac(a[1] * b[1], a[2] * b[2])

RSub(a, b) == Frac(a[1] * b[2] - b[1] * a[2], a[2] * b[2])

RAdd(a, b) == Frac(a[1] * b[2] + b[1] * a[2], a[2] * b[2])

RDiv(a, b) == Frac(a[1] * b[2], a[2] * b[1])

RLess(a, b) == a[1] * b[2] < b[1] * a[2]

RLeq(a, b) == a[1] * b[2] <= b[1] * a[2]

RAbs(a) == <<Abs(a[1]), a[2]>>

RECURSIVE SumValues(_)
SumValues(f) ==
    IF DOMAIN f = {} THEN Zero
    ELSE LET k == CHOOSE x \in DOMAIN f : TRUE
         IN  RAdd(f[k], SumValues([x \in DOMAIN f \ {k} |-> f[x]]))

-----------------------------------------------------------------------------
(* The Graph collaborator, as far as wtap() uses it for `assignments`:     *)
(* a node's out-edges are a dict target -> value in insertion order,       *)
(* modelled as a sequence of <<target, value>> pairs.                      *)

None == 0

\* None where a number is expected (a number is a pair).
Unset == <<>>

EmptyGraph == [n \in {} |-> <<>>]

Keys(row) == {row[i][1] : i \in 1..Len(row)}

Value(row, t) == (CHOOSE i \in 1..Len(row) : row[i][1] = t)

AddEdge(g, n1, n2, v) ==
    IF n1 \notin DOMAIN g
    THEN [n \in DOMAIN g \cup {n1} |-> IF n = n1 THEN <<<<n2, v>>>> ELSE g[n]]
    ELSE IF n2 \in Keys(g[n1])
         THEN [g EXCEPT ![n1] = [i \in 1..Len(@) |->
                                    IF @[i][1] = n2 THEN <<n2, v>> ELSE @[i]]]
         ELSE [g EXCEPT ![n1] = Append(@, <<n2, v>>)]

DelEdge(g, n1, n2) ==
    [g EXCEPT ![n1] = SelectSeq(@, LAMBDA e : e[1] # n2)]

EdgeValue(g, n1, n2) == g[n1][Value(g[n1], n2)][2]

Edges(g) ==
    UNION {{<<n, g[n][i][1], g[n][i][2]>> : i \in 1..Len(g[n])} : n \in DOMAIN g}

-----------------------------------------------------------------------------
(* wtap(): the helper and the expressions of one loop body. *)

\* Mutant of get_current_engagement: the lookup never finds d's edge.
get_current_engagement_Unseen(d, assignment) == None

\* lines 56-60: the first target in d's out-edges, None if d has none.
get_current_engagement(d, assignment) ==
    IF d \in DOMAIN assignment /\ Len(assignment[d]) > 0
    THEN assignment[d][1][1]
    ELSE None

\* Mutant of LoopCondition: "and" instead of "or".
LoopCondition_And ==
    unassigned_devices # <<>> /\ RLess(Zero, SumValues(improvements))

\* Mutant of LoopCondition: >= 0 instead of > 0.
LoopCondition_NonStrict ==
    unassigned_devices # <<>> \/ RLeq(Zero, SumValues(improvements))

\* line 72: the while condition.
LoopCondition ==
    unassigned_devices # <<>> \/ RLess(Zero, SumValues(improvements))

Reverse(s) == [i \in 1..Len(s) |-> s[Len(s) + 1 - i]]

\* Mutant of Queue: the refill takes the weapons in reverse order.
Queue_Reversed ==
    IF unassigned_devices = <<>> THEN Reverse(weapons) ELSE unassigned_devices

\* lines 73-75: the queue the body pops from (refilled when empty).
Queue == IF unassigned_devices = <<>> THEN weapons ELSE unassigned_devices

\* a list of (number, target) tuples in ascending tuple order (list.sort()).
RECURSIVE SortTuples(_)
SortTuples(S) ==
    IF S = {} THEN <<>>
    ELSE LET m == CHOOSE x \in S : \A y \in S :
                      RLess(x[1], y[1]) \/ (x[1] = y[1] /\ x[2] <= y[2])
         IN  <<m>> \o SortTuples(S \ {m})

\* lines 76-77: (p * value, t) for d's engageable targets, most damage first.
damage(d) ==
    Reverse(SortTuples({<<RMul(probabilities[d][t], target_values[t]), t>> :
                           t \in DOMAIN probabilities[d]}))

\* Mutant of effect: the difference taken the other way round.
effect_Reversed(d, t, current_engagement) ==
    LET p == IF t = current_engagement
             THEN cumulative_survival_prob[t]
             ELSE RMul(cumulative_survival_prob[t], RSub(One, probabilities[d][t]))
    IN  RMul(RSub(cumulative_survival_prob[t], p), target_values[t])

\* lines 85-89: the effect of engaging d on t.
effect(d, t, current_engagement) ==
    LET p == IF t = current_engagement
             THEN cumulative_survival_prob[t]
             ELSE RMul(cumulative_survival_prob[t], RSub(One, probabilities[d][t]))
    IN  RMul(RSub(p, cumulative_survival_prob[t]), target_values[t])

\* lines 82-89: the dict built by the loop over damage.
effect_of_assignment(d, current_engagement) ==
    LET dmg == damage(d)
    IN  [t \in {dmg[i][2] : i \in 1..Len(dmg)} |-> effect(d, t, current_engagement)]

\* Mutant of min_values: sorted with reverse=True, as damage is.
min_values_Descending(eff) == Reverse(SortTuples({<<eff[t], t>> : t \in DOMAIN eff}))

\* lines 91-92: the sorted list of (effect, target).
min_values(eff) == SortTuples({<<eff[t], t>> : t \in DOMAIN eff})

\* Mutant of Improves: >= instead of >.
Improves_NonStrict(damage_effect, current_damage_effect) ==
    RLeq(RAbs(current_damage_effect), RAbs(damage_effect))

\* line 102: the test that lets a re-evaluated weapon move.
Improves(damage_effect, current_damage_effect) ==
    RLess(RAbs(current_damage_effect), RAbs(damage_effect))

\* Mutant of AssignEdge: the edge's ends swapped.
AssignEdge_Swapped(g, d, best_target, damage_effect) ==
    AddEdge(g, best_target, d, damage_effect)

\* lines 96, 106: assignments.add_edge(d, best_target, damage_effect).
AssignEdge(g, d, best_target, damage_effect) ==
    AddEdge(g, d, best_target, damage_effect)

\* Mutant of Engage: (1 + p) instead of (1 - p).
Engage_Plus(csp, d, best_target) ==
    [csp EXCEPT ![best_target] = RMul(@, RAdd(One, probabilities[d][best_target]))]

\* lines 97, 107: cumulative_survival_prob[best_target] *= (1 - p).
Engage(csp, d, best_target) ==
    [csp EXCEPT ![best_target] = RMul(@, RSub(One, probabilities[d][best_target]))]

\* line 104: cumulative_survival_prob[best_target] /= (1 - p); the divisor
\* is nonzero here (the caller raises ZeroDivisionError otherwise).
Disengage(csp, d, current_engagement, best_target) ==
    [csp EXCEPT ![best_target] = RDiv(@, RSub(One, probabilities[d][best_target]))]

\* The locals of a loop body: d (line 75), current_engagement (line 80),
\* damage_effect and best_target (line 93), current_damage_effect (line 101,
\* Zero while unset) and the branch of lines 95-112 that was taken.
Locals(d, cur, best, eff, cde, branch) ==
    [d |-> d, current_engagement |-> cur, best_target |-> best,
     damage_effect |-> eff, current_damage_effect |-> cde, branch |-> branch]

\* lines 80-112: the outcome of the evaluation step of weapon d (a weapon
\* with an engageable target) in the current state: the locals of the body
\* and the assignments, cumulative_survival_prob and improvements[d] it
\* leaves behind.
Evaluate(d) ==
    LET current_engagement == get_current_engagement(d, assignments)
        mv == min_values(effect_of_assignment(d, current_engagement))
        damage_effect == mv[1][1]
        best_target == mv[1][2]
        Outcome(branch, asg, csp, imp) ==
            [d |-> d, current_engagement |-> current_engagement,
             best_target |-> best_target, damage_effect |-> damage_effect,
             branch |-> branch, assignments |-> asg,
             cumulative_survival_prob |-> csp, improvement |-> imp]
    IN  IF current_engagement = None
        THEN Outcome("first",
                     AssignEdge(assignments, d, best_target, damage_effect),
                     Engage(cumulative_survival_prob, d, best_target),
                     RAbs(damage_effect))
        ELSE IF current_engagement # best_target
        THEN IF Improves(damage_effect,
                         EdgeValue(assignments, d, current_engagement))
             THEN IF RSub(One, probabilities[d][best_target]) = Zero
                  THEN Outcome("raised",
                               DelEdge(assignments, d, current_engagement),
                               cumulative_survival_prob, improvements[d])
                  ELSE Outcome("reassign",
                               AssignEdge(DelEdge(assignments, d, current_engagement),
                                          d, best_target, damage_effect),
                               Engage(Disengage(cumulative_survival_prob, d,
                                                current_engagement, best_target),
                                      d, best_target),
                               RAbs(damage_effect))
             ELSE Outcome("keep", assignments, cumulative_survival_prob, Zero)
        ELSE Outcome("same", assignments, cumulative_survival_prob, Zero)

-----------------------------------------------------------------------------
(* The loop. *)

\* lines 72-112: one execution of the loop body.
Iterate ==
    /\ pc = "loop"
    /\ LoopCondition
    /\ iterations < MaxIter
    /\ iterations' = iterations + 1
    /\ UNCHANGED <<inputs, test>>
    /\ LET d == Head(Queue)
           current_engagement == get_current_engagement(d, assignments)
       IN
       /\ unassigned_devices' = Tail(Queue)
       /\ IF DOMAIN probabilities[d] = {}
          THEN \* line 76 or 93: no engageable target, KeyError or IndexError.
               /\ pc' = "raised"
               /\ exception' = "LookupError"
               /\ last' = Locals(d, current_engagement, None, Zero, Zero, "raised")
               /\ UNCHANGED <<assignments, cumulative_survival_prob, improvements>>
          ELSE
          LET mv == min_values(effect_of_assignment(d, current_engagement))
              damage_effect == mv[1][1]
              best_target == mv[1][2]
          IN
          IF current_engagement = None
          THEN \* lines 95-98
               /\ assignments' = AssignEdge(assignments, d, best_target, damage_effect)
               /\ cumulative_survival_prob' =
                      Engage(cumulative_survival_prob, d, best_target)
               /\ improvements' = (d :> RAbs(damage_effect)) @@ improvements
               /\ last' = Locals(d, current_engagement, best_target, damage_effect,
                                 Zero, "first")
               /\ UNCHANGED <<pc, exception>>
          ELSE IF current_engagement # best_target
          THEN LET current_damage_effect ==
                       EdgeValue(assignments, d, current_engagement)
               IN
               IF Improves(damage_effect, current_damage_effect)
               THEN IF RSub(One, probabilities[d][best_target]) = Zero
                    THEN \* line 104 divides by zero, after the del of line 103.
                         /\ assignments' = DelEdge(assignments, d, current_engagement)
                         /\ pc' = "raised"
                         /\ exception' = "ZeroDivisionError"
                         /\ last' = Locals(d, current_engagement, best_target,
                                           damage_effect,
                                           current_damage_effect, "raised")
                         /\ UNCHANGED <<cumulative_survival_prob, improvements>>
                    ELSE \* lines 103-108
                         /\ assignments' =
                                AssignEdge(DelEdge(assignments, d, current_engagement),
                                           d, best_target, damage_effect)
                         /\ cumulative_survival_prob' =
                                Engage(Disengage(cumulative_survival_prob, d,
                                                 current_engagement, best_target),
                                       d, best_target)
                         /\ improvements' = (d :> RAbs(damage_effect)) @@ improvements
                         /\ last' = Locals(d, current_engagement, best_target,
                                           damage_effect,
                                           current_damage_effect, "reassign")
                         /\ UNCHANGED <<pc, exception>>
               ELSE \* line 110
                    /\ improvements' = (d :> Zero) @@ improvements
                    /\ last' = Locals(d, current_engagement, best_target,
                                      damage_effect,
                                           current_damage_effect, "keep")
                    /\ UNCHANGED <<assignments, cumulative_survival_prob, pc, exception>>
          ELSE \* line 112
               /\ improvements' = (d :> Zero) @@ improvements
               /\ last' = Locals(d, current_engagement, best_target,
                                 damage_effect, Zero, "same")
               /\ UNCHANGED <<assignments, cumulative_survival_prob, pc, exception>>

\* line 114: the loop condition is false, the assignments are returned.
Return ==
    /\ pc = "loop"
    /\ ~LoopCondition
    /\ pc' = "done"
    /\ UNCHANGED <<inputs, unassigned_devices, assignments, cumulative_survival_prob,
                   improvements, exception, iterations, last, test>>

Next == Iterate \/ Return

-----------------------------------------------------------------------------
(* Inputs and initial states. *)

\* lines 66-70: the working state of a call on the given inputs.
Start(prob, weap, values) ==
    /\ probabilities = prob
    /\ weapons = weap
    /\ target_values = values
    /\ unassigned_devices = weap
    /\ assignments = EmptyGraph
    /\ cumulative_survival_prob = [t \in DOMAIN values |-> One]
    /\ improvements = [w \in {} |-> Zero]
    /\ pc = "loop"
    /\ exception = ""
    /\ iterations = 0
    /\ last = Locals(None, None, None, Zero, Zero, "init")
    /\ c = 0
    /\ expected_result = Unset
    /\ variations = <<>>
    /\ total_survival_value = Unset

Rows(T, P) == UNION {[S -> P] : S \in SUBSET T}

Targets == {5, 6}

ValidProbabilities == {Frac(0, 1), Frac(1, 2), Frac(1, 1)}

ValidValues == {Frac(0, 1), Frac(1, 1), Frac(2, 1)}

\* Inputs inside the documented domain: a non-empty weapon list, every weapon
\* with an engageable target, probabilities in [0, 1], values >= 0.
InitValid ==
    \E n \in 1..MaxWeapons :
    \E prob \in [1..n -> Rows(Targets, ValidProbabilities) \ {<<>>}] :
    \E values \in [Targets -> ValidValues] :
        Start(prob, [i \in 1..n |-> i], values)

\* test01_wtap / test02_wtap_with_fractional_probabilities: weapons [1, 2, 3],
\* targets 5, 6, 7 and one probability for all nine pairs.
ExampleWeapons == <<1, 2, 3>>

ExampleTargets == {5, 6, 7}

ExampleTargetValues == [t \in ExampleTargets |-> Frac(t, 1)]

ExampleProbability == Frac(1, 10)

InitExample ==
    \E q \in {ExampleProbability, Frac(1, 2)} :
    \E values \in [ExampleTargets -> {Frac(5, 1), Frac(6, 1), Frac(7, 1)}] :
        Start([d \in 1..3 |-> [t \in ExampleTargets |-> q]], ExampleWeapons, values)

Init == InitValid \/ InitExample

Spec == Init /\ [][Next]_vars

\* Whether a step of Next is possible: ENABLED <<Next>>_vars written out
\* (every step of Next changes pc or iterations).
NextEnabled == pc = "loop" /\ (LoopCondition => iterations < MaxIter)

\* The loop is sequential code that always takes its next step: weak
\* fairness of Next, WF_vars(Next), with its ENABLED written out.
FairSpec == Spec /\ ([]<><<Next>>_vars \/ []<>~NextEnabled)

AnyProbabilities == {Frac(-1, 2), Frac(0, 1), Frac(1, 1), Frac(3, 2)}

\* Inputs the code accepts although a probability lies outside [0, 1].
InitOutOfRange ==
    \E n \in 1..MaxWeapons :
    \E prob \in [1..n -> [Targets -> AnyProbabilities]] :
    \E values \in [Targets -> {Frac(1, 1), Frac(2, 1)}] :
        Start(prob, [i \in 1..n |-> i], values)

\* Inputs the code accepts with an empty weapon list, a weapon without
\* engageable target or a negative target value.
InitMalformed ==
    \E n \in 0..MaxWeapons :
    \E prob \in [1..n -> Rows(Targets, ValidProbabilities)] :
    \E values \in [Targets -> {Frac(-1, 1), Frac(1, 1)}] :
        Start(prob, [i \in 1..n |-> i], values)

\* Inputs whose weapon list is not in the order of the identifiers.
InitReordered ==
    \E n \in 2..MaxWeapons :
    \E weap \in {w \in [1..n -> 1..n] :
                     (\A i, j \in 1..n : w[i] = w[j] => i = j) /\ w # [i \in 1..n |-> i]} :
    \E prob \in [1..n -> [Targets -> {Frac(1, 2), Frac(1, 1)}]] :
    \E values \in [Targets -> {Frac(1, 1), Frac(2, 1)}] :
        Start(prob, weap, values)

InitAny == Init \/ InitOutOfRange \/ InitMalformed \/ InitReordered

SpecAny == InitAny /\ [][Next]_vars

(* Definitions the properties are stated with. *)

RECURSIVE RProduct(_)
RProduct(f) ==
    IF DOMAIN f = {} THEN One
    ELSE LET k == CHOOSE x \in DOMAIN f : TRUE
         IN  RMul(f[k], RProduct([x \in DOMAIN f \ {k} |-> f[x]]))

\* The weapons with an assignment edge to target t.
AssignedTo(t) == {w \in DOMAIN assignments : t \in Keys(assignments[w])}

\* The targets weapon w is assigned to.
TargetsOf(w) == IF w \in DOMAIN assignments THEN Keys(assignments[w]) ELSE {}

\* The product of (1 - p) over the weapons assigned to t (1 if there is none).
SurvivalProduct(t) ==
    RProduct([w \in AssignedTo(t) |-> RSub(One, probabilities[w][t])])

\* The total expected surviving value.
TotalSurvivingValue(csp) ==
    SumValues([t \in DOMAIN target_values |-> RMul(target_values[t], csp[t])])

Evaluated(w) == w \in DOMAIN improvements

ProbabilitiesInRange ==
    \A i \in 1..Len(weapons) : \A t \in DOMAIN probabilities[weapons[i]] :
        /\ RLeq(Zero, probabilities[weapons[i]][t])
        /\ RLeq(probabilities[weapons[i]][t], One)

IsExample ==
    /\ weapons = ExampleWeapons
    /\ target_values = ExampleTargetValues
    /\ probabilities = [d \in 1..3 |-> [t \in ExampleTargets |-> ExampleProbability]]

-----------------------------------------------------------------------------
(* The Wikipedia instance and the tests that use it.  A weapon "tank-0" is  *)
(* the pair <<"tank", 0>>; the probabilities 0.3, 0.2, ... are taken as the *)
(* decimals they denote.                                                    *)

\* line 212
tanks == [i \in 1..5 |-> <<"tank", i - 1>>]

\* line 213
aircrafts == [i \in 1..2 |-> <<"aircraft", i - 1>>]

\* line 214
ships == [i \in 1..1 |-> <<"ship", i - 1>>]

\* line 215: weapons = tanks + aircrafts + ships
WikipediaWeapons == tanks \o aircrafts \o ships

\* line 216
WikipediaTargetValues == (1 :> Frac(5, 1)) @@ (2 :> Frac(10, 1)) @@ (3 :> Frac(20, 1))

\* lines 218-222
tank_probabilities == (1 :> Frac(3, 10)) @@ (2 :> Frac(2, 10)) @@ (3 :> Frac(5, 10))

\* lines 224-228
aircraft_probabilities == (1 :> Frac(1, 10)) @@ (2 :> Frac(6, 10)) @@ (3 :> Frac(5, 10))

\* lines 230-234
sea_vessel_probabilities == (1 :> Frac(4, 10)) @@ (2 :> Frac(5, 10)) @@ (3 :> Frac(4, 10))

\* line 265: weapon.split("-")[0]
wtype(weapon) == weapon[1]

\* lines 236-249: every vehicle of a category gets the category's row.
WikipediaProbabilities ==
    [w \in {WikipediaWeapons[i] : i \in 1..Len(WikipediaWeapons)} |->
        IF wtype(w) = "tank" THEN tank_probabilities
        ELSE IF wtype(w) = "aircraft" THEN aircraft_probabilities
        ELSE sea_vessel_probabilities]

RECURSIVE RPow(_, _)
RPow(a, n) == IF n = 0 THEN One ELSE RMul(a, RPow(a, n - 1))

\* lines 260-268 (and 290-298): target -> weapon type -> number of edges.
survival_value(assignment) ==
    LET result == Edges(assignment)
    IN  [target \in {e[2] : e \in result} |->
            [wt \in {wtype(e[1]) : e \in {x \in result : x[2] = target}} |->
                Cardinality({e \in result : e[2] = target /\ wtype(e[1]) = wt})]]

\* Mutant of wikipedia_wtap_damage_assessment: unengaged targets are left out.
wikipedia_wtap_damage_assessment_EngagedOnly(prob, assignment, values) ==
    LET sv == survival_value(assignment)
    IN  SumValues([target \in DOMAIN sv |->
            RMul(RProduct([wt \in DOMAIN sv[target] |->
                     RPow(RSub(One, prob[<<wt, 0>>][target]), sv[target][wt])]),
                 values[target])])

\* lines 253-284: per engaged target the product, over the weapon types on
\* it, of (1 - probabilities[type-0][target]) ** quantity, times the target's
\* value; plus the value of every target without an edge.
wikipedia_wtap_damage_assessment(prob, assignment, values) ==
    LET sv == survival_value(assignment)
    IN  RAdd(SumValues([target \in DOMAIN sv |->
                 RMul(RProduct([wt \in DOMAIN sv[target] |->
                          RPow(RSub(One, prob[<<wt, 0>>][target]), sv[target][wt])]),
                      values[target])]),
             SumValues([target \in DOMAIN values \ DOMAIN sv |-> values[target]]))

\* lines 287-314: the string lists, per target and weapon type in sorted
\* order, the number of weapons; it is modelled by the table it prints.
wikipedia_wtap_pretty_printer(assignment) == survival_value(assignment)

\* "{:.3f}".format(x): x in thousandths, rounded half to even.
Format3(x) ==
    LET n == x[1] * 1000
        q == n \div x[2]
        r == n % x[2]
    IN  IF 2 * r > x[2] \/ (2 * r = x[2] /\ q % 2 = 1) THEN q + 1 ELSE q

\* itertools.permutations (line 168): the position of a weapon in the list
\* that is permuted, and the permutation that follows perm (perm itself
\* after the last one).
Position(w) == CHOOSE i \in 1..Len(WikipediaWeapons) : WikipediaWeapons[i] = w

HasNextPermutation(perm) ==
    \E k \in 1..(Len(perm) - 1) : Position(perm[k]) < Position(perm[k + 1])

NextPermutation(perm) ==
    IF ~HasNextPermutation(perm) THEN perm
    ELSE LET n == Len(perm)
             i == CHOOSE k \in 1..(n - 1) :
                      /\ Position(perm[k]) < Position(perm[k + 1])
                      /\ \A m \in (k + 1)..(n - 1) :
                             Position(perm[m]) > Position(perm[m + 1])
             j == CHOOSE k \in (i + 1)..n :
                      /\ Position(perm[k]) > Position(perm[i])
                      /\ \A m \in (k + 1)..n : Position(perm[m]) < Position(perm[i])
         IN  [k \in 1..n |->
                 IF k < i THEN perm[k]
                 ELSE IF k = i THEN perm[j]
                 ELSE LET m == n + i + 1 - k
                      IN  IF m = j THEN perm[i] ELSE perm[m]]

\* Mutant of Call: the working state of the previous call is kept, as if it
\* were held outside the function.
Call_SharedState(weap) ==
    /\ weapons' = weap
    /\ unassigned_devices' = weap
    /\ pc' = "loop"
    /\ iterations' = 0
    /\ last' = Locals(None, None, None, Zero, Zero, "init")
    /\ UNCHANGED <<assignments, cumulative_survival_prob, improvements>>

\* lines 62-70 in a later call: wtap() is entered with the list weap and the
\* same table and values, and creates its working state.
Call(weap) ==
    /\ weapons' = weap
    /\ unassigned_devices' = weap
    /\ assignments' = EmptyGraph
    /\ cumulative_survival_prob' = [t \in DOMAIN target_values |-> One]
    /\ improvements' = [w \in {} |-> Zero]
    /\ pc' = "loop"
    /\ iterations' = 0
    /\ last' = Locals(None, None, None, Zero, Zero, "init")

\* lines 161-166 and the first pass of lines 168-171: test03 has called
\* wtap() on the first permutation, the list as set up.
InitTest03 == Start(WikipediaProbabilities, WikipediaWeapons, WikipediaTargetValues)

\* lines 173-181, then lines 168-171 of the next pass: wtap() has returned;
\* the damage of its assignment is assessed and recorded if it differs from
\* the last one recorded, and wtap() is called on the next permutation.
Test03Step ==
    /\ pc = "done"
    /\ LET dmg == wikipedia_wtap_damage_assessment(probabilities, assignments,
                                                    target_values)
           s == <<Format3(dmg), wikipedia_wtap_pretty_printer(assignments)>>
       IN  /\ c' = c + 1
           /\ total_survival_value' = dmg
           /\ IF expected_result # dmg
              THEN /\ expected_result' = dmg
                   /\ variations' =
                          IF s \in DOMAIN variations
                          THEN [variations EXCEPT ![s] = @ + 1]
                          ELSE (s :> 1) @@ variations
              ELSE UNCHANGED <<expected_result, variations>>
    /\ UNCHANGED <<probabilities, target_values, exception>>
    /\ IF c + 1 < MaxPermutations /\ HasNextPermutation(weapons)
       THEN Call(NextPermutation(weapons))
       ELSE /\ pc' = "finished"
            /\ UNCHANGED <<weapons, unassigned_devices, assignments,
                           cumulative_survival_prob, improvements, iterations, last>>

NextTest03 == Iterate \/ Return \/ Test03Step

SpecTest03 == InitTest03 /\ [][NextTest03]_vars

\* Graph(from_list=L): the edges of L added in order.
RECURSIVE GraphFromList(_)
GraphFromList(L) ==
    IF L = <<>> THEN EmptyGraph
    ELSE LET e == L[Len(L)]
         IN  AddEdge(GraphFromList(SubSeq(L, 1, Len(L) - 1)), e[1], e[2], e[3])

\* lines 320-330: the list L of test_to_verify_wikipedia_damage_assessment.
VerifyList ==
    << <<<<"tank", 0>>, 1, Frac(3, 10)>>,
       <<<<"tank", 1>>, 1, Frac(3, 10)>>,
       <<<<"tank", 2>>, 1, Frac(3, 10)>>,
       <<<<"tank", 3>>, 2, Frac(2, 10)>>,
       <<<<"tank", 4>>, 2, Frac(2, 10)>>,
       <<<<"aircraft", 0>>, 3, Frac(5, 10)>>,
       <<<<"aircraft", 1>>, 3, Frac(5, 10)>>,
       <<<<"ship", 0>>, 2, Frac(5, 10)>> >>

\* A caller is about to assess `assignment`; no call of wtap() is involved.
StartAssess(prob, weap, assignment, values) ==
    /\ probabilities = prob
    /\ weapons = weap
    /\ target_values = values
    /\ unassigned_devices = <<>>
    /\ assignments = assignment
    /\ cumulative_survival_prob = <<>>
    /\ improvements = <<>>
    /\ pc = "assess"
    /\ exception = ""
    /\ iterations = 0
    /\ last = Locals(None, None, None, Zero, Zero, "init")
    /\ c = 0
    /\ expected_result = Unset
    /\ variations = <<>>
    /\ total_survival_value = Unset

\* lines 317-331: the setup of test_to_verify_wikipedia_damage_assessment.
InitVerify ==
    StartAssess(WikipediaProbabilities, WikipediaWeapons, GraphFromList(VerifyList),
                WikipediaTargetValues)

\* Small inputs of wikipedia_wtap_damage_assessment: two tanks and a ship,
\* two targets, every weapon with its own row, each weapon on one target or
\* on none, every edge annotated with its probability (as in test04).
AssessWeapons == <<<<"tank", 0>>, <<"tank", 1>>, <<"ship", 0>>>>

AssessTargets == {1, 2}

AssessProbabilities == {Frac(0, 1), Frac(1, 2)}

AssessValues == {Frac(1, 1), Frac(2, 1)}

RECURSIVE AssignmentOf(_, _, _)
AssignmentOf(prob, weap, choice) ==
    IF weap = <<>> THEN EmptyGraph
    ELSE LET n == Len(weap)
             g == AssignmentOf(prob, SubSeq(weap, 1, n - 1), choice)
         IN  IF choice[n] = None THEN g
             ELSE AddEdge(g, weap[n], choice[n], prob[weap[n]][choice[n]])

InitAssess ==
    \E prob \in [{AssessWeapons[i] : i \in 1..Len(AssessWeapons)} ->
                    [AssessTargets -> AssessProbabilities]] :
    \E choice \in [1..Len(AssessWeapons) -> AssessTargets \cup {None}] :
    \E values \in [AssessTargets -> AssessValues] :
        StartAssess(prob, AssessWeapons,
                    AssignmentOf(prob, AssessWeapons, choice), values)

\* line 332 (and line 173): the call of wikipedia_wtap_damage_assessment.
Assess ==
    /\ pc = "assess"
    /\ total_survival_value' =
           wikipedia_wtap_damage_assessment(probabilities, assignments, target_values)
    /\ pc' = "assessed"
    /\ UNCHANGED <<inputs, unassigned_devices, assignments, cumulative_survival_prob,
                   improvements, exception, iterations, last, c, expected_result,
                   variations>>

SpecAssess == (InitVerify \/ InitAssess) /\ [][Assess]_vars

-----------------------------------------------------------------------------
(* C1: in every state of a solve that has not raised, every target's       *)
(* cumulative survival probability is the product of (1 - p) over the      *)
(* weapons currently assigned to it, and 1 when no weapon is assigned.     *)
(* Stated for every input the code accepts; the reassignment of lines      *)
(* 103-108 breaks it.                                                      *)
C1_SurvivalIsProduct ==
    pc # "raised" =>
        \A t \in DOMAIN target_values :
            cumulative_survival_prob[t] = SurvivalProduct(t)

(* C2: on every input of the documented domain the loop terminates: the    *)
(* call returns, with an empty queue and a zero sum of improvements.       *)
C2_Terminates ==
    <>(pc = "done" /\ unassigned_devices = <<>> /\ SumValues(improvements) = Zero)

\* A call that returned after more than one sweep over the weapons.
C2_Witness ==
    pc = "done" /\ iterations > Len(weapons) /\ unassigned_devices = <<>>

(* C3: the returned assignment places each weapon, taken in input order, on *)
(* a target of most negative marginal effect given the weapons placed       *)
(* before it, annotated with that effect; on the instance of the tests the  *)
(* edges are (1,7,-7/10), (2,7,-63/100), (3,6,-3/5).                        *)
PriorSurvival(i, t) ==
    RProduct([j \in {k \in 1..(i - 1) : t \in TargetsOf(weapons[k])} |->
                 RSub(One, probabilities[weapons[j]][t])])

GreedyEffect(i, t) ==
    RMul(RSub(RMul(PriorSurvival(i, t), RSub(One, probabilities[weapons[i]][t])),
              PriorSurvival(i, t)),
         target_values[t])

ExampleEdges ==
    {<<1, 7, Frac(-7, 10)>>, <<2, 7, Frac(-63, 100)>>, <<3, 6, Frac(-3, 5)>>}

C4_AssignedToBestTarget ==
    last.branch \in {"first", "reassign", "keep", "same"} =>
        TargetsOf(last.d) = {last.best_target}

(* C4 amended: after an evaluation step of d, d is assigned to the step's   *)
(* best_target if d had no engagement, if best_target is its engagement, or *)
(* if best_target's effect is strictly larger in magnitude than the effect  *)
(* recorded on d's edge; otherwise d stays on its current engagement.       *)
C4_AssignedToBestOrKept ==
    last.branch \in {"first", "reassign", "keep", "same"} =>
        IF \/ last.current_engagement = None
           \/ last.current_engagement = last.best_target
           \/ RLess(RAbs(last.current_damage_effect), RAbs(last.damage_effect))
        THEN TargetsOf(last.d) = {last.best_target}
        ELSE TargetsOf(last.d) = {last.current_engagement}

\* A re-evaluation judged another target best and left d where it was.
C4_Witness ==
    /\ last.branch = "keep"
    /\ last.best_target # last.current_engagement
    /\ TargetsOf(last.d) = {last.current_engagement}
    /\ last.damage_effect # Zero

(* C5: solve fails with InvalidInput, returning nothing, whenever the       *)
(* weapon list is empty, a target value is negative or a weapon has no      *)
(* engageable target.                                                       *)
InvalidInput ==
    \/ weapons = <<>>
    \/ \E t \in DOMAIN target_values : RLess(target_values[t], Zero)
    \/ \E i \in 1..Len(weapons) : DOMAIN probabilities[weapons[i]] = {}

C5_InvalidInputRejected ==
    InvalidInput =>
        /\ pc # "done"
        /\ pc = "raised" => exception = "InvalidInput"

(* C5 amended: solve validates nothing and never fails with InvalidInput.   *)
(* On an empty weapon list it returns the empty assignment without running  *)
(* the loop body; a negative target value alone raises nothing; a weapon    *)
(* without engageable target makes solve raise a lookup error (KeyError or  *)
(* IndexError) when that weapon is first evaluated, so that nothing is      *)
(* returned, and this is the only way a lookup error is raised.             *)
Unengageable == {i \in 1..Len(weapons) : DOMAIN probabilities[weapons[i]] = {}}

C5_NoValidation ==
    /\ exception # "InvalidInput"
    /\ weapons = <<>> =>
           /\ pc # "raised"
           /\ iterations = 0
           /\ Edges(assignments) = {}
    /\ Unengageable # {} =>
           LET i == CHOOSE k \in Unengageable : \A j \in Unengageable : k <= j
           IN  /\ pc # "done"
               /\ iterations <= i
               /\ iterations < i => pc = "loop"
               /\ iterations = i =>
                      pc = "raised" /\ exception = "LookupError" /\ last.d = weapons[i]
    /\ (Unengageable = {} /\ ProbabilitiesInRange) => pc # "raised"
    /\ exception = "LookupError" => DOMAIN probabilities[last.d] = {}

\* A call on an input with a negative target value has returned an assignment.
C5_Witness ==
    /\ pc = "done"
    /\ \E t \in DOMAIN target_values : RLess(target_values[t], Zero)
    /\ Edges(assignments) # {}

(* C6: a reassignment of d from current_engagement to best_target removes   *)
(* the edge d -> current_engagement, divides the survival of                *)
(* current_engagement by (1 - p[d][current_engagement]), multiplies the     *)
(* survival of best_target by (1 - p[d][best_target]) and leaves the        *)
(* survival of every other target unchanged.                                *)
C6_ReassignmentUpdates ==
    [][(/\ last'.branch = "reassign"
        /\ iterations' = iterations + 1
        /\ RSub(One, probabilities[last'.d][last'.current_engagement]) # Zero)
       => LET d == last'.d
              cur == last'.current_engagement
              best == last'.best_target
          IN  /\ cur \notin Keys(assignments'[d])
              /\ best \in Keys(assignments'[d])
              /\ cumulative_survival_prob'[cur] =
                     RDiv(cumulative_survival_prob[cur],
                          RSub(One, probabilities[d][cur]))
              /\ cumulative_survival_prob'[best] =
                     RMul(cumulative_survival_prob[best],
                          RSub(One, probabilities[d][best]))
              /\ \A t \in DOMAIN target_values \ {cur, best} :
                     cumulative_survival_prob'[t] = cumulative_survival_prob[t]
      ]_vars

(* C7: on every input with probabilities in [0, 1], every cumulative        *)
(* survival probability stays within [0, 1].                                *)
C7_SurvivalInUnitInterval ==
    ProbabilitiesInRange =>
        \A t \in DOMAIN target_values :
            /\ RLeq(Zero, cumulative_survival_prob[t])
            /\ RLeq(cumulative_survival_prob[t], One)

\* Two weapons engage one target, whose survival is strictly inside (0, 1).
C7_Witness ==
    /\ ProbabilitiesInRange
    /\ \E t \in DOMAIN target_values :
           /\ Cardinality(AssignedTo(t)) >= 2
           /\ RLess(Zero, cumulative_survival_prob[t])
           /\ RLess(cumulative_survival_prob[t], One)

(* C8: a weapon is assigned to at most one target: while the call has not   *)
(* raised, to no target before its first evaluation and to exactly one from *)
(* then on; the returned assignment gives every input weapon exactly one    *)
(* target.                                                                  *)
C8_OneTargetPerWeapon ==
    /\ DOMAIN assignments \subseteq {weapons[i] : i \in 1..Len(weapons)}
    /\ \A i \in 1..Len(weapons) : Cardinality(TargetsOf(weapons[i])) <= 1
    /\ pc # "raised" =>
           \A i \in 1..Len(weapons) :
               Cardinality(TargetsOf(weapons[i])) =
                   IF Evaluated(weapons[i]) THEN 1 ELSE 0
    /\ pc = "done" =>
           \A i \in 1..Len(weapons) : Cardinality(TargetsOf(weapons[i])) = 1

\* A weapon re-evaluated with another target judged best still has one
\* target, while the call is in its second sweep.
C8_Witness ==
    /\ pc = "loop"
    /\ iterations > Len(weapons)
    /\ last.best_target # last.current_engagement
    /\ Cardinality(TargetsOf(last.d)) = 1

(* C9: every assignment edge (d, t) has an entry in the probability table:  *)
(* d is a weapon of the table and t is in probabilities[d].                 *)
C9_OnlyEngageableTargets ==
    \A e \in Edges(assignments) :
        /\ e[1] \in DOMAIN probabilities
        /\ e[2] \in DOMAIN probabilities[e[1]]

\* A weapon that cannot engage the most valuable target is assigned.
C9_Witness ==
    \E e \in Edges(assignments) : \E t \in DOMAIN target_values :
        /\ t \notin DOMAIN probabilities[e[1]]
        /\ RLess(target_values[e[2]], target_values[t])

(* C10: on inputs with probabilities in [0, 1] and non-negative values, no  *)
(* step increases the total expected surviving value.                       *)
NonNegativeValues ==
    \A t \in DOMAIN target_values : RLeq(Zero, target_values[t])

IterateIsEvaluate ==
    [][(iterations' = iterations + 1 /\ DOMAIN probabilities[Head(Queue)] # {})
       => LET e == Evaluate(Head(Queue))
          IN  /\ assignments' = e.assignments
              /\ cumulative_survival_prob' = e.cumulative_survival_prob
              /\ last'.branch = e.branch
              /\ last'.best_target = e.best_target
              /\ last'.damage_effect = e.damage_effect
              /\ e.branch # "raised" => improvements'[e.d] = e.improvement
      ]_vars

(* C11 as stated: once the loop has terminated, running the evaluation step *)
(* once more for any weapon selects the target the weapon already holds,    *)
(* and changes neither the assignment nor any cumulative survival.          *)
C11_ReevaluationSelectsHeldTarget ==
    pc = "done" =>
        \A i \in 1..Len(weapons) :
            LET e == Evaluate(weapons[i])
            IN  /\ e.best_target = e.current_engagement
                /\ e.assignments = assignments
                /\ e.cumulative_survival_prob = cumulative_survival_prob

(* C11 amended: once the loop has terminated, running the evaluation step   *)
(* once more for any weapon leaves the weapon on its target, changes        *)
(* neither the assignment nor any cumulative survival and records the       *)
(* improvement 0; the best_target the step selects is either the held       *)
(* target or a target whose effect is not strictly larger in magnitude than *)
(* the effect recorded on the weapon's edge.                                *)
C11_ReevaluationKeepsTarget ==
    pc = "done" =>
        \A i \in 1..Len(weapons) :
            LET e == Evaluate(weapons[i])
            IN  /\ e.branch \in {"keep", "same"}
                /\ e.current_engagement # None
                /\ TargetsOf(weapons[i]) = {e.current_engagement}
                /\ e.assignments = assignments
                /\ e.cumulative_survival_prob = cumulative_survival_prob
                /\ e.improvement = Zero
                /\ e.best_target # e.current_engagement =>
                       RLeq(RAbs(e.damage_effect),
                            RAbs(EdgeValue(assignments, weapons[i],
                                           e.current_engagement)))

\* At the fixed point the step of some weapon selects, with a nonzero
\* effect, a target the weapon does not hold.
C11_Witness ==
    /\ pc = "done"
    /\ \E i \in 1..Len(weapons) :
           LET e == Evaluate(weapons[i])
           IN  /\ e.best_target # e.current_engagement
               /\ e.damage_effect # Zero
               /\ e.branch = "keep"


(* C12: the result of solve depends on the order of the weapon list: on the *)
(* Wikipedia instance (5 tanks, 2 aircraft, 1 ship, values 5, 10, 20) the   *)
(* calls of test03 on permutations of the same weapons return assignments   *)
(* of different total expected surviving value: 6.524 for the list as set   *)
(* up and the three permutations after it, 7.53 for the fifth permutation   *)
(* (the ship before the aircraft).                                          *)
C12_OrderSensitive ==
    /\ {weapons[i] : i \in 1..Len(weapons)} =
           {WikipediaWeapons[i] : i \in 1..Len(WikipediaWeapons)}
    /\ Len(weapons) = Len(WikipediaWeapons)
    /\ c \in 1..4 => total_survival_value = Frac(6524, 1000)
    /\ c \in 5..6 => total_survival_value = Frac(7530, 1000)
    /\ c >= 5 => \E s1, s2 \in DOMAIN variations : s1[1] # s2[1]

\* test03 has assessed the fifth permutation and recorded a second damage.
C12_Witness ==
    /\ c = 5
    /\ weapons # WikipediaWeapons
    /\ expected_result = Frac(7530, 1000)
    /\ Cardinality(DOMAIN variations) = 2


(* C13 as stated: the damage assessment of an assignment is the sum over    *)
(* the targets of value[t] times the product of (1 - probability[w][t])     *)
(* over the weapons assigned to t (the full value for a target without      *)
(* weapon); on the assignment of the test it is 9.915.                      *)
IsVerifyInstance ==
    /\ probabilities = WikipediaProbabilities
    /\ target_values = WikipediaTargetValues
    /\ assignments = GraphFromList(VerifyList)

C13_AssessmentIsProductSum ==
    pc = "assessed" =>
        /\ total_survival_value =
               TotalSurvivingValue([t \in DOMAIN target_values |-> SurvivalProduct(t)])
        /\ IsVerifyInstance => total_survival_value = Frac(9915, 1000)

(* C13 amended: the damage assessment is the sum over the targets of        *)
(* value[t] times the product, over the weapons assigned to t, of           *)
(* (1 - probability[v][t]) where v is weapon 0 of the weapon's type (the    *)
(* full value for a target without weapon); it is the product over the      *)
(* assigned weapons' own probabilities when every weapon has the row of     *)
(* weapon 0 of its type, as in the reference tables, where the assignment   *)
(* of the test gives 9.915.                                                 *)
TypeZero(w) == <<wtype(w), 0>>

SameRowPerType ==
    \A w \in DOMAIN probabilities : probabilities[w] = probabilities[TypeZero(w)]

C13_AssessmentUsesTypeRow ==
    pc = "assessed" =>
        /\ total_survival_value =
               TotalSurvivingValue([t \in DOMAIN target_values |->
                   RProduct([w \in AssignedTo(t) |->
                                RSub(One, probabilities[TypeZero(w)][t])])])
        /\ SameRowPerType =>
               total_survival_value =
                   TotalSurvivingValue([t \in DOMAIN target_values |->
                                           SurvivalProduct(t)])
        /\ IsVerifyInstance => total_survival_value = Frac(9915, 1000)

\* The assignment of the test has been assessed.
C13_Witness ==
    /\ pc = "assessed"
    /\ IsVerifyInstance
    /\ SameRowPerType
    /\ total_survival_value = Frac(9915, 1000)


(* C14: when the loop exits, the queue is empty, every input weapon has     *)
(* been evaluated at least once and the recorded improvement of every       *)
(* weapon is 0.                                                             *)
LoopExited == pc = "done" \/ (pc = "loop" /\ ~LoopCondition)

C14_ExitState ==
    LoopExited =>
        /\ unassigned_devices = <<>>
        /\ DOMAIN improvements = {weapons[i] : i \in 1..Len(weapons)}
        /\ \A i \in 1..Len(weapons) :
               /\ Evaluated(weapons[i])
               /\ improvements[weapons[i]] = Zero
        /\ iterations >= Len(weapons)
        /\ iterations % (IF weapons = <<>> THEN 1 ELSE Len(weapons)) = 0

\* The loop has exited after a second sweep, every improvement 0 although
\* some weapon's edge records a nonzero effect.
C14_Witness ==
    /\ pc = "done"
    /\ iterations = 2 * Len(weapons)
    /\ \E e \in Edges(assignments) : e[3] # Zero
    /\ \A w \in DOMAIN improvements : improvements[w] = Zero


(* C15: weapons are evaluated in input order, cyclically: the queue starts  *)
(* as the weapon list, each iteration pops the front weapon, and the queue  *)
(* is refilled with all weapons in original order only when it is empty and *)
(* the sum of the improvements is strictly positive; so the k-th iteration  *)
(* evaluates weapons[(k-1) mod n].                                          *)
C15_CyclicInputOrder ==
    /\ [](LET n == Len(weapons)
          IN  /\ iterations = 0 => unassigned_devices = weapons
              /\ iterations >= 1 =>
                     /\ last.d = weapons[((iterations - 1) % n) + 1]
                     /\ unassigned_devices =
                            SubSeq(weapons, ((iterations - 1) % n) + 2, n))
    /\ [][iterations' = iterations + 1 =>
             /\ last'.d = Head(IF unassigned_devices = <<>> THEN weapons
                                                            ELSE unassigned_devices)
             /\ unassigned_devices = <<>> =>
                    /\ RLess(Zero, SumValues(improvements))
                    /\ unassigned_devices' = Tail(weapons)
             /\ unassigned_devices # <<>> =>
                    unassigned_devices' = Tail(unassigned_devices)]_vars

\* The second sweep over a reordered weapon list has evaluated its second
\* weapon.
C15_Witness ==
    /\ weapons # [i \in 1..Len(weapons) |-> i]
    /\ iterations = Len(weapons) + 2
    /\ last.d = weapons[2]


(* C16: on inputs with probabilities in [0, 1] and non-negative values,     *)
(* every marginal effect an evaluation step computes is <= 0, so every      *)
(* annotation of an assignment edge is <= 0 and every recorded improvement  *)
(* is >= 0.                                                                 *)
C16_EffectsNonPositive ==
    (ProbabilitiesInRange /\ NonNegativeValues) =>
        /\ pc = "loop" =>
               \A i \in 1..Len(weapons) : \A t \in DOMAIN probabilities[weapons[i]] :
                   RLeq(effect(weapons[i], t,
                               get_current_engagement(weapons[i], assignments)),
                        Zero)
        /\ RLeq(last.damage_effect, Zero)
        /\ \A e \in Edges(assignments) : RLeq(e[3], Zero)
        /\ \A w \in DOMAIN improvements : RLeq(Zero, improvements[w])

\* A weapon is assigned with a strictly negative effect and a strictly
\* positive improvement, and a later step computed a strictly negative effect.
C16_Witness ==
    /\ ProbabilitiesInRange
    /\ NonNegativeValues
    /\ iterations > Len(weapons)
    /\ RLess(last.damage_effect, Zero)
    /\ \E e \in Edges(assignments) : RLess(e[3], Zero)
    /\ \E w \in DOMAIN improvements : RLess(Zero, improvements[w])


(* C17: on inputs with probabilities in [0, 1] and non-negative values the  *)
(* reassignment branch is never taken: once a weapon has been assigned, its *)
(* target and its recorded marginal damage never change, and no cumulative  *)
(* survival ever increases.                                                 *)
C17_NoReassignment ==
    /\ []((ProbabilitiesInRange /\ NonNegativeValues) =>
              /\ last.branch # "reassign"
              /\ exception # "ZeroDivisionError")
    /\ [][(ProbabilitiesInRange /\ NonNegativeValues) =>
              /\ \A w \in DOMAIN assignments :
                     /\ w \in DOMAIN assignments'
                     /\ assignments'[w] = assignments[w]
                     /\ Len(assignments[w]) = 1
              /\ \A t \in DOMAIN target_values :
                     RLeq(cumulative_survival_prob'[t], cumulative_survival_prob[t])
         ]_vars

\* On such an input a re-evaluation judged another target best, with a
\* nonzero effect, and the weapon kept its target and its annotation.
C17_Witness ==
    /\ ProbabilitiesInRange
    /\ NonNegativeValues
    /\ last.branch = "keep"
    /\ last.damage_effect # Zero
    /\ last.best_target # last.current_engagement
    /\ Edges(assignments) \cap {<<last.d, last.current_engagement,
                                  last.current_damage_effect>>} # {}


(* C18: on inputs with probabilities in [0, 1] and non-negative values,     *)
(* solve executes at most 2*n loop iterations for n weapons: one sweep when *)
(* every improvement of the first sweep is 0, otherwise exactly two sweeps, *)
(* the second of which sets every recorded improvement to 0.                *)
C18_AtMostTwoSweeps ==
    (ProbabilitiesInRange /\ NonNegativeValues) =>
        LET n == Len(weapons)
        IN  /\ iterations <= 2 * n
            /\ (pc = "loop" /\ iterations = 2 * n) => ~LoopCondition
            /\ iterations > n =>
                   /\ \E e \in Edges(assignments) : e[3] # Zero
                   /\ \A i \in 1..(iterations - n) : improvements[weapons[i]] = Zero
            /\ pc = "done" =>
                   iterations = IF \A e \in Edges(assignments) : e[3] = Zero
                                THEN n ELSE 2 * n

\* A call on such an input has returned after exactly two sweeps.
C18_Witness ==
    /\ ProbabilitiesInRange
    /\ NonNegativeValues
    /\ pc = "done"
    /\ Len(weapons) >= 2
    /\ iterations = 2 * Len(weapons)

(* C19: solve leaves its inputs unchanged (the queue it pops and refills is *)
(* a copy of the weapon list; the probability table and the target values   *)
(* are only read), and every call creates its working state afresh: the     *)
(* assignment, the cumulative survivals and the improvements of one call    *)
(* are not seen by the next.                                                *)
C19_InputsUnchangedStateFresh ==
    /\ [][pc = "loop" => UNCHANGED inputs]_vars
    /\ []((pc = "loop" /\ iterations = 0) =>
              /\ unassigned_devices = weapons
              /\ assignments = EmptyGraph
              /\ cumulative_survival_prob = [t \in DOMAIN target_values |-> One]
              /\ improvements = <<>>)
    /\ [](pc = "done" =>
              /\ Len(weapons) = Len(WikipediaWeapons)
              /\ unassigned_devices = <<>>
              /\ probabilities = WikipediaProbabilities
              /\ target_values = WikipediaTargetValues)

\* A later call of test03 has returned: its queue is used up and its weapon
\* list, another permutation than the first, is whole.
C19_Witness ==
    /\ c >= 1
    /\ pc = "done"
    /\ unassigned_devices = <<>>
    /\ Len(weapons) = Len(WikipediaWeapons)
    /\ weapons # WikipediaWeapons

=============================================================================
